---- MODULE Spec2Model ----
(***************************************************************************)
(* cam2image: the camera-to-image publisher of src/src/cam2image.cpp.      *)
(* State machine of main(): device open, the publisher loop (capture,      *)
(* optional flip, message build, publish, spin_some, sleep), the flip      *)
(* toggle subscription, and the shutdown flag.                             *)
(***************************************************************************)
EXTENDS Integers, Sequences, FiniteSets, TLC

(* ------------------------------ bounds -------------------------------- *)

\* number of loop iterations explored
MaxTicks == 4
\* messages published (the frame id counter stops at MaxFrames + 1)
MaxFrames == 2
\* toggle messages waiting in the subscription queue
MaxPending == 2
\* dimensions and row padding of the buffers given to the pure functions
MaxRows == 2
MaxCols == 2
MaxPad == 1

(* --------------------------- OpenCV types ----------------------------- *)

CV_8U == 0
CV_8S == 1
CV_16U == 2
CV_16S == 3
CV_CN_SHIFT == 3
Pow2(n) == IF n = 0 THEN 1 ELSE IF n = 1 THEN 2 ELSE IF n = 2 THEN 4 ELSE 8

\* CV_MAKETYPE: depth in the low 3 bits, channels-1 above them
CV_MAKETYPE(depth, cn) == depth + (cn - 1) * Pow2(CV_CN_SHIFT)
CV_MAT_DEPTH(type) == type % Pow2(CV_CN_SHIFT)
CV_MAT_CN(type) == (type \div Pow2(CV_CN_SHIFT)) + 1

CV_8UC1 == CV_MAKETYPE(CV_8U, 1)
CV_8UC3 == CV_MAKETYPE(CV_8U, 3)
CV_8UC4 == CV_MAKETYPE(CV_8U, 4)
CV_16SC1 == CV_MAKETYPE(CV_16S, 1)

\* bytes per sample for the depths 8U 8S 16U 16S 32S 32F 64F 16F
DepthBytes == <<1, 1, 2, 2, 4, 4, 8, 2>>
\* cv::Mat::elemSize: bytes per pixel
ElemSize(type) == DepthBytes[CV_MAT_DEPTH(type) + 1] * CV_MAT_CN(type)

\* every type code with 1 to 4 channels
MatTypes == 0 .. 31

(* ------------------------------ cv::Mat ------------------------------- *)

\* a default-constructed cv::Mat (also what a failed read leaves)
EmptyMat == [rows |-> 0, cols |-> 0, type |-> 0, step |-> 0, data |-> <<>>]

\* cv::Mat::empty
empty(m) == m.rows * m.cols = 0 \/ m.data = <<>>

\* byte at (row r, column c, byte b of the pixel), zero based
At(m, r, c, b) == m.data[r * m.step + c * ElemSize(m.type) + b + 1]

\* a buffer of the given shape; byte k holds (seed + mul*k) mod 256
MkMat(rows, cols, type, pad, seed, mul) ==
    LET st == cols * ElemSize(type) + pad
    IN [rows |-> rows, cols |-> cols, type |-> type, step |-> st,
        data |-> [k \in 1 .. st * rows |-> (seed + mul * (k - 1)) % 256]]

\* variant: the source rows are read as if they had no padding
flip_ignores_stride(src) ==
    LET es == ElemSize(src.type)
        st == src.cols * es
    IN [rows |-> src.rows, cols |-> src.cols, type |-> src.type, step |-> st,
        data |-> [k \in 1 .. st * src.rows |->
                    LET r == (k - 1) \div st
                        c == ((k - 1) % st) \div es
                        b == ((k - 1) % st) % es
                    IN src.data[r * st + (src.cols - 1 - c) * es + b + 1]]]

\* variant: the destination keeps the row stride of the source
flip_keeps_stride(src) ==
    LET es == ElemSize(src.type)
    IN [rows |-> src.rows, cols |-> src.cols, type |-> src.type, step |-> src.step,
        data |-> [k \in 1 .. src.step * src.rows |->
                    LET r == (k - 1) \div src.step
                        o == (k - 1) % src.step
                    IN IF o < src.cols * es
                       THEN At(src, r, src.cols - 1 - (o \div es), o % es)
                       ELSE src.data[k]]]

\* cv::flip(src, dst, 1): dst is created continuous (no row padding) and
\* pixel c of every row is pixel cols-1-c of the source row
flip(src) ==
    LET es == ElemSize(src.type)
        st == src.cols * es
    IN [rows |-> src.rows, cols |-> src.cols, type |-> src.type, step |-> st,
        data |-> [k \in 1 .. st * src.rows |->
                    LET r == (k - 1) \div st
                        c == ((k - 1) % st) \div es
                        b == ((k - 1) % st) % es
                    IN At(src, r, src.cols - 1 - c, b)]]

(* --------------------------- pure functions --------------------------- *)

UnsupportedEncoding == "Unsupported encoding type"
NoThrow == "none"

\* variant: the unsigned 16-bit type is the one mapped to mono16
mat_type2encoding_u16(mat_type) ==
    CASE mat_type = CV_8UC1  -> [threw |-> FALSE, value |-> "mono8"]
      [] mat_type = CV_8UC3  -> [threw |-> FALSE, value |-> "bgr8"]
      [] mat_type = CV_MAKETYPE(CV_16U, 1) -> [threw |-> FALSE, value |-> "mono16"]
      [] mat_type = CV_8UC4  -> [threw |-> FALSE, value |-> "rgba8"]
      [] OTHER               -> [threw |-> TRUE, value |-> "Unsupported encoding type"]

\* mat_type2encoding: the tag, or the runtime_error it throws
mat_type2encoding(mat_type) ==
    CASE mat_type = CV_8UC1  -> [threw |-> FALSE, value |-> "mono8"]
      [] mat_type = CV_8UC3  -> [threw |-> FALSE, value |-> "bgr8"]
      [] mat_type = CV_16SC1 -> [threw |-> FALSE, value |-> "mono16"]
      [] mat_type = CV_8UC4  -> [threw |-> FALSE, value |-> "rgba8"]
      [] OTHER               -> [threw |-> TRUE, value |-> UnsupportedEncoding]

Digits == <<"0", "1", "2", "3", "4", "5", "6", "7", "8", "9">>

\* std::to_string of an unsigned value: decimal digits, most significant first
RECURSIVE to_string(_)
to_string(n) ==
    IF n < 10 THEN <<Digits[n + 1]>>
    ELSE Append(to_string(n \div 10), Digits[(n % 10) + 1])

\* a default-constructed sensor_msgs::msg::Image
NewImage == [height |-> 0, width |-> 0, encoding |-> "", step |-> 0,
             is_bigendian |-> FALSE, data |-> <<>>, frame_id |-> <<>>]

\* variant: the payload is sized by the tight row size, not the stride
convert_frame_to_message_tight(frame, frame_id, msg) ==
    LET m1 == [msg EXCEPT !.height = frame.rows, !.width = frame.cols]
        enc == mat_type2encoding(frame.type)
        size == frame.cols * ElemSize(frame.type) * frame.rows
    IN IF enc.threw
       THEN [threw |-> TRUE, what |-> enc.value, msg |-> m1]
       ELSE [threw |-> FALSE, what |-> "none",
             msg |-> [m1 EXCEPT !.encoding = enc.value,
                                !.step = frame.step,
                                !.data = [k \in 1 .. size |-> frame.data[k]],
                                !.frame_id = to_string(frame_id)]]

\* convert_frame_to_message: the message after the call and whether the call
\* threw; the fields are written in the order of the statements, so a throw
\* of the encoding lookup leaves height and width written
convert_frame_to_message(frame, frame_id, msg) ==
    LET m1 == [msg EXCEPT !.height = frame.rows, !.width = frame.cols]
        enc == mat_type2encoding(frame.type)
        size == frame.step * frame.rows
    IN IF enc.threw
       THEN [threw |-> TRUE, what |-> enc.value, msg |-> m1]
       ELSE [threw |-> FALSE, what |-> NoThrow,
             msg |-> [m1 EXCEPT !.encoding = enc.value,
                                !.step = frame.step,
                                !.data = [k \in 1 .. size |-> frame.data[k]],
                                !.frame_id = to_string(frame_id)]]

(* ------------------------------- state -------------------------------- *)

VARIABLES
    pc,             \* position of main
    ok,             \* rclcpp::ok(): cleared by the shutdown signal
    exit_code,      \* -1 while running, else the status main returned
    exc,            \* what() of the exception that ended the process
    cap_opened,     \* cap.isOpened() as read at the check after cap.open
    is_flipped,     \* the flip flag the callback writes
    queue,          \* toggle messages received and not yet handled
    handled,        \* toggle values handled by the latest spin_some that handled any
    frame,          \* cv::Mat frame
    flipped_frame,  \* cv::Mat flipped_frame
    i,              \* the frame id counter
    tick,           \* loop iterations started
    msg,            \* the unique_ptr msg of the iteration (0 = null)
    heap,           \* the Image objects: id -> cell
    published,      \* messages handed to the publisher, in order
    acquired,       \* what the latest read of the device delivered
    preview,        \* the buffer shown in the "cam2image" window
    errlog,         \* error diagnostics emitted, each with the tick it came in
    released        \* times the destructor of cap has run

vars == <<pc, ok, exit_code, exc, cap_opened, is_flipped, queue, handled, frame,
          flipped_frame, i, tick, msg, heap, published, acquired, preview, errlog,
          released>>

Null == 0
\* a heap cell: an Image object, or storage that holds none
Free == [live |-> FALSE, obj |-> NewImage]
Live(v) == [live |-> TRUE, obj |-> v]
MsgIds == 1 .. (MaxFrames + 1)

\* frames the capture device delivers in the loop
CaptureFrames ==
    { MkMat(1, 2, CV_8UC1, 0, 1, 1),
      MkMat(1, 2, CV_8UC3, 1, 7, 1),
      MkMat(1, 2, CV_MAKETYPE(CV_8S, 1), 0, 3, 1) }

\* variant: one message object allocated once and used by every iteration
make_unique_reuse(h) ==
    1

\* std::make_unique<Image>(): an object that is not live
make_unique(h) ==
    CHOOSE id \in MsgIds : ~h[id].live /\ \A j \in MsgIds : ~h[j].live => id <= j

\* variant: the callback only ever switches flipping on
callback_sticky(flag, data) ==
    flag \/ data

\* the subscription callback: the new value of is_flipped
callback(flag, data) == data

\* variant: one callback per call, as spin_once would run
spin_some_one(flag, q) ==
    IF q = <<>> THEN flag ELSE callback(flag, Head(q))

\* rclcpp::spin_some: the callback runs for every queued message, oldest first
RECURSIVE spin_some(_, _)
spin_some(flag, q) ==
    IF q = <<>> THEN flag ELSE spin_some(callback(flag, Head(q)), Tail(q))

(* ------------------------------ actions ------------------------------- *)

Init ==
    /\ pc = "open"
    /\ ok = TRUE
    /\ exit_code = -1
    /\ exc = NoThrow
    /\ cap_opened = FALSE
    /\ is_flipped = FALSE
    /\ queue = <<>>
    /\ handled = <<>>
    /\ frame = EmptyMat
    /\ flipped_frame = EmptyMat
    /\ i = 1
    /\ tick = 0
    /\ msg = Null
    /\ heap = [id \in MsgIds |-> Free]
    /\ published = <<>>
    /\ acquired = EmptyMat
    /\ preview = EmptyMat
    /\ errlog = <<>>
    /\ released = 0

Running == pc \notin {"exit", "abort"}

\* variant: the callback runs in the receiving thread, on arrival
ToggleArrives_Immediate ==
    /\ Running
    /\ Len(queue) < MaxPending
    /\ \E v \in BOOLEAN : is_flipped' = callback(is_flipped, v)
    /\ UNCHANGED <<pc, ok, exit_code, exc, cap_opened, queue, handled, frame,
                   flipped_frame, i, tick, msg, heap, published,
                   acquired, preview, errlog, released>>

\* a std_msgs::Bool arrives on flip_image
ToggleArrives ==
    /\ Running
    /\ Len(queue) < MaxPending
    /\ \E v \in BOOLEAN : queue' = Append(queue, v)
    /\ UNCHANGED <<pc, ok, exit_code, exc, cap_opened, is_flipped, handled, frame,
                   flipped_frame, i, tick, msg, heap, published,
                   acquired, preview, errlog, released>>

\* SIGINT: the signal handler of rclcpp shuts the context down
Signal ==
    /\ Running
    /\ ok
    /\ ok' = FALSE
    /\ UNCHANGED <<pc, exit_code, exc, cap_opened, is_flipped, queue, handled, frame,
                   flipped_frame, i, tick, msg, heap, published,
                   acquired, preview, errlog, released>>

CouldNotOpen == "Could not open video stream"

\* variant: the isOpened check is missing
OpenDevice_NoCheck ==
    /\ pc = "open"
    /\ \E opened \in BOOLEAN : cap_opened' = opened
    /\ pc' = "head"
    /\ UNCHANGED <<ok, exit_code, exc, is_flipped, queue, handled, frame,
                   flipped_frame, i, tick, msg, heap, published,
                   acquired, preview, errlog, released>>

\* cap.open and the isOpened check
OpenDevice ==
    /\ pc = "open"
    /\ \E opened \in BOOLEAN :
        /\ cap_opened' = opened
        /\ IF opened
           THEN /\ pc' = "head"
                /\ UNCHANGED <<exit_code, errlog, released>>
           ELSE \* RCLCPP_ERROR; return 1 destroys cap
                /\ pc' = "exit"
                /\ exit_code' = 1
                /\ errlog' = Append(errlog, [tick |-> tick, what |-> CouldNotOpen])
                /\ released' = released + 1
    /\ UNCHANGED <<ok, exc, is_flipped, queue, handled, frame, flipped_frame, i,
                   tick, msg, heap, published, acquired, preview>>

\* while (rclcpp::ok()) and the allocation of the iteration's message
LoopHead ==
    /\ pc = "head"
    /\ IF ok
       THEN /\ tick < MaxTicks
            /\ LET id == make_unique(heap)
               IN /\ msg' = id
                  /\ heap' = [heap EXCEPT ![id] = Live([NewImage EXCEPT !.is_bigendian = FALSE])]
            /\ tick' = tick + 1
            /\ pc' = "capture"
       ELSE /\ pc' = "shutdown"
            /\ UNCHANGED <<msg, heap, tick>>
    /\ UNCHANGED <<ok, exit_code, exc, cap_opened, is_flipped, queue, handled, frame,
                   flipped_frame, i, published,
                   acquired, preview, errlog, released>>

\* cap >> frame: a frame, or an empty Mat when none could be read
Capture ==
    /\ pc = "capture"
    /\ \E f \in CaptureFrames \cup {EmptyMat} :
        /\ (i <= MaxFrames \/ f = EmptyMat)
        /\ frame' = f
        /\ acquired' = f
    /\ pc' = "build"
    /\ UNCHANGED <<ok, exit_code, exc, cap_opened, is_flipped, queue, handled,
                   flipped_frame, i, tick, msg, heap, published, preview, errlog,
                   released>>

\* bool show_camera = false: never assigned after its initialisation
show_camera == FALSE

\* variant: an empty frame restarts the loop at once (a continue)
Build_ContinueOnEmpty ==
    /\ pc = "build"
    /\ IF ~empty(frame)
       THEN LET src == IF ~is_flipped THEN frame ELSE flip(frame)
                r == convert_frame_to_message(src, i, heap[msg].obj)
            IN /\ flipped_frame' = IF is_flipped THEN src ELSE flipped_frame
               /\ IF r.threw
                  THEN \* nothing catches the exception: std::terminate, which
                       \* reports what(); whether the stack is unwound first
                       \* (destroying msg and cap) is up to the implementation
                       /\ pc' = "abort"
                       /\ exc' = r.what
                       /\ errlog' = Append(errlog, [tick |-> tick, what |-> r.what])
                       /\ preview' = preview
                       /\ \E unwound \in BOOLEAN :
                            IF unwound
                            THEN /\ heap' = [heap EXCEPT ![msg] = Free]
                                 /\ msg' = Null
                                 /\ released' = released + 1
                            ELSE /\ heap' = [heap EXCEPT ![msg] = Live(r.msg)]
                                 /\ msg' = msg
                                 /\ released' = released
                  ELSE /\ pc' = "publish"
                       /\ heap' = [heap EXCEPT ![msg] = Live(r.msg)]
                       /\ preview' = IF show_camera THEN frame ELSE preview
                       /\ UNCHANGED <<exc, errlog, msg, released>>
       ELSE /\ pc' = "head"
            /\ heap' = [heap EXCEPT ![msg] = Free]
            /\ msg' = Null
            /\ UNCHANGED <<flipped_frame, exc, errlog, preview, released>>
    /\ UNCHANGED <<ok, exit_code, cap_opened, is_flipped, queue, handled, frame, i,
                   tick, published, acquired>>

\* variant: the flipped copy is made once and used again on later ticks
Build_StaleFlip ==
    /\ pc = "build"
    /\ IF ~empty(frame)
       THEN LET src == IF ~is_flipped THEN frame
                       ELSE IF empty(flipped_frame) THEN flip(frame)
                       ELSE flipped_frame
                r == convert_frame_to_message(src, i, heap[msg].obj)
            IN /\ flipped_frame' = IF is_flipped THEN src ELSE flipped_frame
               /\ IF r.threw
                  THEN \* nothing catches the exception: std::terminate, which
                       \* reports what(); whether the stack is unwound first
                       \* (destroying msg and cap) is up to the implementation
                       /\ pc' = "abort"
                       /\ exc' = r.what
                       /\ errlog' = Append(errlog, [tick |-> tick, what |-> r.what])
                       /\ preview' = preview
                       /\ \E unwound \in BOOLEAN :
                            IF unwound
                            THEN /\ heap' = [heap EXCEPT ![msg] = Free]
                                 /\ msg' = Null
                                 /\ released' = released + 1
                            ELSE /\ heap' = [heap EXCEPT ![msg] = Live(r.msg)]
                                 /\ msg' = msg
                                 /\ released' = released
                  ELSE /\ pc' = "publish"
                       /\ heap' = [heap EXCEPT ![msg] = Live(r.msg)]
                       /\ preview' = IF show_camera THEN frame ELSE preview
                       /\ UNCHANGED <<exc, errlog, msg, released>>
       ELSE /\ pc' = "spin"
            /\ UNCHANGED <<flipped_frame, heap, exc, errlog, preview, msg, released>>
    /\ UNCHANGED <<ok, exit_code, cap_opened, is_flipped, queue, handled, frame, i,
                   tick, published, acquired>>

\* if (!frame.empty()) { flip if needed; convert_frame_to_message }
Build ==
    /\ pc = "build"
    /\ IF ~empty(frame)
       THEN LET src == IF ~is_flipped THEN frame ELSE flip(frame)
                r == convert_frame_to_message(src, i, heap[msg].obj)
            IN /\ flipped_frame' = IF is_flipped THEN src ELSE flipped_frame
               /\ IF r.threw
                  THEN \* nothing catches the exception: std::terminate, which
                       \* reports what(); whether the stack is unwound first
                       \* (destroying msg and cap) is up to the implementation
                       /\ pc' = "abort"
                       /\ exc' = r.what
                       /\ errlog' = Append(errlog, [tick |-> tick, what |-> r.what])
                       /\ preview' = preview
                       /\ \E unwound \in BOOLEAN :
                            IF unwound
                            THEN /\ heap' = [heap EXCEPT ![msg] = Free]
                                 /\ msg' = Null
                                 /\ released' = released + 1
                            ELSE /\ heap' = [heap EXCEPT ![msg] = Live(r.msg)]
                                 /\ msg' = msg
                                 /\ released' = released
                  ELSE /\ pc' = "publish"
                       /\ heap' = [heap EXCEPT ![msg] = Live(r.msg)]
                       /\ preview' = IF show_camera THEN frame ELSE preview
                       /\ UNCHANGED <<exc, errlog, msg, released>>
       ELSE /\ pc' = "spin"
            /\ UNCHANGED <<flipped_frame, heap, exc, errlog, preview, msg, released>>
    /\ UNCHANGED <<ok, exit_code, cap_opened, is_flipped, queue, handled, frame, i,
                   tick, published, acquired>>

\* variant: the increment of the counter is missing
Publish_NoCount ==
    /\ pc = "publish"
    /\ published' = Append(published, [msg |-> msg, tick |-> tick])
    /\ msg' = Null
    /\ pc' = "spin"
    /\ UNCHANGED <<ok, exit_code, exc, cap_opened, is_flipped, queue, handled, frame,
                   flipped_frame, i, tick, heap,
                   acquired, preview, errlog, released>>

\* pub->publish(std::move(msg)); ++i
Publish ==
    /\ pc = "publish"
    /\ published' = Append(published, [msg |-> msg, tick |-> tick])
    /\ msg' = Null
    /\ i' = i + 1
    /\ pc' = "spin"
    /\ UNCHANGED <<ok, exit_code, exc, cap_opened, is_flipped, queue, handled, frame,
                   flipped_frame, tick, heap,
                   acquired, preview, errlog, released>>

\* rclcpp::spin_some(node)
SpinSome ==
    /\ pc = "spin"
    /\ is_flipped' = spin_some(is_flipped, queue)
    /\ handled' = IF queue = <<>> THEN handled ELSE queue
    /\ queue' = <<>>
    /\ pc' = "sleep"
    /\ UNCHANGED <<ok, exit_code, exc, cap_opened, frame, flipped_frame, i, tick,
                   msg, heap, published,
                   acquired, preview, errlog, released>>

\* variant: an iteration that published nothing uses up a frame id too
Sleep_CountsEveryTick ==
    /\ pc = "sleep"
    /\ IF msg # Null
       THEN heap' = [heap EXCEPT ![msg] = Free] /\ msg' = Null /\ i' = i + 1
       ELSE UNCHANGED <<heap, msg, i>>
    /\ pc' = "head"
    /\ UNCHANGED <<ok, exit_code, exc, cap_opened, is_flipped, queue, handled, frame,
                   flipped_frame, tick, published,
                   acquired, preview, errlog, released>>

\* loop_rate.sleep() and the end of the iteration: a message that was not
\* moved out is destroyed with its unique_ptr
Sleep ==
    /\ pc = "sleep"
    /\ IF msg # Null
       THEN heap' = [heap EXCEPT ![msg] = Free] /\ msg' = Null
       ELSE UNCHANGED <<heap, msg>>
    /\ pc' = "head"
    /\ UNCHANGED <<ok, exit_code, exc, cap_opened, is_flipped, queue, handled, frame,
                   flipped_frame, i, tick, published,
                   acquired, preview, errlog, released>>

\* rclcpp::shutdown(); return 0 destroys cap
Shutdown ==
    /\ pc = "shutdown"
    /\ ok' = FALSE
    /\ exit_code' = 0
    /\ released' = released + 1
    /\ pc' = "exit"
    /\ UNCHANGED <<exc, cap_opened, is_flipped, queue, handled, frame, flipped_frame,
                   i, tick, msg, heap, published, acquired, preview, errlog>>

Next ==
    \/ ToggleArrives
    \/ Signal
    \/ OpenDevice
    \/ LoopHead
    \/ Capture
    \/ Build
    \/ Publish
    \/ SpinSome
    \/ Sleep
    \/ Shutdown

Spec == Init /\ [][Next]_vars

\* the statements of main: each returns, so main keeps taking steps
MainStep ==
    \/ OpenDevice
    \/ LoopHead
    \/ Capture
    \/ Build
    \/ Publish
    \/ SpinSome
    \/ Sleep
    \/ Shutdown

SpecLive == Spec /\ WF_vars(MainStep)

(* ------------------ the message builder on its own -------------------- *)

\* buffers handed to convert_frame_to_message: every type code, with and
\* without row padding, ramp and constant contents
BuildFrames ==
    { MkMat(r, c, t, p, seed, mul) :
        r \in 1 .. MaxRows, c \in 1 .. MaxCols, t \in MatTypes,
        p \in 0 .. MaxPad, seed \in {0, 250}, mul \in {0, 1} }

\* frame ids handed to convert_frame_to_message
SeqIds == {0, 1, 9, 10, 99, 100, 4096, 65535}

InitFn ==
    /\ pc = "call"
    /\ ok = TRUE
    /\ exit_code = -1
    /\ exc = NoThrow
    /\ cap_opened = TRUE
    /\ is_flipped = FALSE
    /\ queue = <<>>
    /\ handled = <<>>
    /\ frame \in BuildFrames
    /\ flipped_frame = EmptyMat
    /\ i \in SeqIds
    /\ tick = 0
    /\ msg = 1
    /\ heap = [id \in MsgIds |-> IF id = 1 THEN Live(NewImage) ELSE Free]
    /\ published = <<>>
    /\ acquired = EmptyMat
    /\ preview = EmptyMat
    /\ errlog = <<>>
    /\ released = 0

\* one call convert_frame_to_message(frame, i, *msg)
CallConvert ==
    /\ pc = "call"
    /\ LET r == convert_frame_to_message(frame, i, heap[msg].obj)
       IN /\ heap' = [heap EXCEPT ![msg] = Live(r.msg)]
          /\ exc' = r.what
          /\ pc' = IF r.threw THEN "threw" ELSE "returned"
    /\ UNCHANGED <<ok, exit_code, cap_opened, is_flipped, queue, handled, frame,
                   flipped_frame, i, tick, msg, published,
                   acquired, preview, errlog, released>>

\* one call cv::flip(frame, flipped_frame, 1)
CallFlip ==
    /\ pc = "call"
    /\ flipped_frame' = flip(frame)
    /\ pc' = "flipped"
    /\ UNCHANGED <<ok, exit_code, exc, cap_opened, is_flipped, queue, handled, frame,
                   i, tick, msg, heap, published, acquired, preview, errlog,
                   released>>

\* a second flip, of the flipped buffer
CallFlipAgain ==
    /\ pc = "flipped"
    /\ flipped_frame' = flip(flipped_frame)
    /\ pc' = "flipped twice"
    /\ UNCHANGED <<ok, exit_code, exc, cap_opened, is_flipped, queue, handled, frame,
                   i, tick, msg, heap, published, acquired, preview, errlog,
                   released>>

NextFn ==
    \/ CallConvert
    \/ CallFlip
    \/ CallFlipAgain

SpecFn == InitFn /\ [][NextFn]_vars

(* ------------------------------ claims -------------------------------- *)

\* the value a decimal digit string denotes
DigitValue(d) == CHOOSE v \in 0 .. 9 : Digits[v + 1] = d
RECURSIVE ParseDecimal(_)
ParseDecimal(s) ==
    IF s = <<>> THEN 0
    ELSE 10 * ParseDecimal(SubSeq(s, 1, Len(s) - 1)) + DigitValue(s[Len(s)])

\* s is the decimal numeral of n: digits only, no leading zero, value n
IsDecimalOf(s, n) ==
    /\ Len(s) >= 1
    /\ \A k \in 1 .. Len(s) : \E v \in 0 .. 9 : Digits[v + 1] = s[k]
    /\ (Len(s) > 1 => s[1] # "0")
    /\ ParseDecimal(s) = n

\* C7: for a buffer with a supported layout and a sequence id n, the built
\* message has the buffer's height, width and stride, data of exactly
\* stride x height bytes equal byte for byte to the buffer's payload
\* (padding included), and frame_id the decimal string of n.
C7_BuildCopiesBuffer ==
    pc = "returned" =>
        LET m == heap[msg].obj
        IN /\ m.height = frame.rows
           /\ m.width = frame.cols
           /\ m.step = frame.step
           /\ Len(m.data) = frame.step * frame.rows
           /\ \A k \in 1 .. Len(frame.data) : m.data[k] = frame.data[k]
           /\ Len(m.data) = Len(frame.data)
           /\ IsDecimalOf(m.frame_id, i)

C7_Witness ==
    /\ pc = "returned"
    /\ frame.rows = MaxRows
    /\ frame.step > frame.cols * ElemSize(frame.type)
    /\ heap[msg].obj.data[frame.step] # heap[msg].obj.data[1]
    /\ i >= 100

\* the tag the table of the encoding resolver gives a layout, "" for none
TableTag(type) ==
    LET unsigned8 == CV_MAT_DEPTH(type) = CV_8U
        bytes == ElemSize(type)
    IN IF unsigned8 /\ bytes = 1 THEN "mono8"
       ELSE IF unsigned8 /\ bytes = 3 THEN "bgr8"
       ELSE IF CV_MAT_DEPTH(type) = CV_16S /\ CV_MAT_CN(type) = 1 THEN "mono16"
       ELSE IF unsigned8 /\ bytes = 4 THEN "rgba8"
       ELSE ""

\* C8: the encoding resolver gives mono8 to 1-byte unsigned single channel,
\* bgr8 to 3-byte unsigned, mono16 to signed 16-bit single channel, rgba8 to
\* 4-byte unsigned, and throws UnsupportedEncoding, returning no tag, for
\* every other layout.
C8_ResolverTable ==
    pc \in {"returned", "threw"} =>
        IF TableTag(frame.type) # ""
        THEN /\ pc = "returned"
             /\ exc = NoThrow
             /\ heap[msg].obj.encoding = TableTag(frame.type)
        ELSE /\ pc = "threw"
             /\ exc = UnsupportedEncoding
             /\ heap[msg].obj.encoding = ""

C8_Witness ==
    /\ pc = "threw"
    /\ exc = UnsupportedEncoding
    /\ CV_MAT_CN(frame.type) = 1
    /\ ElemSize(frame.type) = 2

(* claims about the publisher loop *)

\* the message that was published last
LastPublished == heap[published[Len(published)].msg].obj

\* the loop has just handed this iteration's message to the publisher
JustPublished ==
    /\ pc = "spin"
    /\ msg = Null
    /\ published # <<>>
    /\ published[Len(published)].tick = tick

\* message m shows the pixels of buffer f, mirrored left to right or not
ShowsFrame(m, f, mirrored) ==
    /\ m.height = f.rows
    /\ m.width = f.cols
    /\ \A r \in 0 .. f.rows - 1 : \A c \in 0 .. f.cols - 1 :
         \A b \in 0 .. ElemSize(f.type) - 1 :
            m.data[r * m.step + c * ElemSize(f.type) + b + 1]
                = At(f, r, IF mirrored THEN f.cols - 1 - c ELSE c, b)

\* the value of the toggle the callback handled last (none yet: unflipped)
LastHandled == IF handled = <<>> THEN FALSE ELSE handled[Len(handled)]

\* C1: the frame_id values of the published messages are "1", "2", "3", ...
\* in publish order, however many Empty ticks lie between two publishes.
C1_FrameIdsConsecutive ==
    \A k \in 1 .. Len(published) :
        IsDecimalOf(heap[published[k].msg].obj.frame_id, k)

\* publish, two Empty ticks, publish
C1_Witness ==
    /\ Len(published) = 2
    /\ published[2].tick = published[1].tick + 3
    /\ heap[published[2].msg].obj.frame_id = <<"2">>

\* C2: on a tick whose frame is empty nothing is published and the counter
\* is unchanged, and the tick still drains the control queue (spin_some) and
\* sleeps before the next tick starts.
C2_EmptyTickSkipsToPaced ==
    [][ /\ (pc = "build" /\ empty(frame) /\ pc' # pc) =>
              /\ pc' = "spin"
              /\ published' = published
              /\ i' = i
        /\ (empty(frame) /\ pc = "spin" /\ pc' # pc) =>
              /\ pc' = "sleep"
              /\ queue' = <<>>
              /\ (queue # <<>> => is_flipped' = queue[Len(queue)])
              /\ published' = published
              /\ i' = i
        /\ (empty(frame) /\ pc = "sleep" /\ pc' # pc) =>
              /\ pc' = "head"
              /\ published' = published
              /\ i' = i
              /\ \A k \in 1 .. Len(published) : published[k].tick # tick
        /\ (pc = "capture" /\ pc' # pc) => pc' = "build"
      ]_vars

\* an Empty first tick that drained a toggle and reached the next loop head
C2_Witness ==
    /\ pc = "head"
    /\ tick = 1
    /\ empty(frame)
    /\ published = <<>>
    /\ i = 1
    /\ handled # <<>>
    /\ is_flipped

\* C3: a non-empty frame with a layout outside the four supported ones only
\* skips its tick: nothing is published for it, the process does not end,
\* and the loop goes on to drain and pace.
C3_UnsupportedSkipsTick ==
    [][ (pc = "build" /\ ~empty(frame) /\ TableTag(frame.type) = "" /\ pc' # pc) =>
            /\ pc' = "spin"
            /\ published' = published
      ]_vars

\* C4: the flag is last-write-wins: the published frame is flipped exactly
\* when the last toggle handled before the loop read the flag was true,
\* whatever toggles were handled before it.
C4_LastWriteWins ==
    (JustPublished /\ handled # <<>>) =>
        ShowsFrame(LastPublished, frame, handled[Len(handled)])

\* true then false handled in one drain, next frame published unflipped
C4_Witness ==
    /\ JustPublished
    /\ handled = <<TRUE, FALSE>>
    /\ ~ShowsFrame(LastPublished, frame, TRUE)

\* C5 as stated: the first message published after a toggle arrived is
\* flipped exactly when that toggle is true, wherever in the tick it arrived.
C5_AppliedOnArrival ==
    [][ (pc = "publish" /\ pc' = "spin" /\ queue # <<>>) =>
            ShowsFrame(heap[msg].obj, frame, queue[Len(queue)])
      ]_vars

\* C5 amended: a toggle takes effect once spin_some has handled it: the
\* drain handles every toggle queued at that point, and a published message
\* is flipped exactly when the last handled toggle is true; toggles still
\* queued at the publish leave that message alone.
C5_AppliedAfterHandling ==
    [][ /\ (pc = "publish" /\ pc' = "spin") =>
              /\ ShowsFrame(heap[msg].obj, frame, LastHandled)
              /\ queue' = queue
              /\ is_flipped' = is_flipped
        /\ (pc = "spin" /\ pc' = "sleep" /\ queue # <<>>) =>
              /\ queue' = <<>>
              /\ handled' = queue
              /\ is_flipped' = queue[Len(queue)]
      ]_vars

\* a toggle that was pending at one publish flips the next message
C5_Witness ==
    /\ JustPublished
    /\ Len(published) >= 2
    /\ published[Len(published) - 1].tick = tick - 1
    /\ handled = <<TRUE>>
    /\ ~ShowsFrame(LastPublished, frame, FALSE)
    /\ queue # <<>>

\* C6: when the capture device cannot be opened the process exits with a
\* non-zero status before the loop: no tick runs and nothing is published.
C6_OpenFailureExits ==
    /\ (pc # "open" /\ ~cap_opened) =>
          /\ pc = "exit"
          /\ exit_code # 0
          /\ exit_code # -1
          /\ tick = 0
          /\ published = <<>>
          /\ msg = Null
    /\ (exit_code \notin {0, -1}) => ~cap_opened

C6_Witness ==
    /\ pc = "exit"
    /\ exit_code = 1
    /\ ~cap_opened
    /\ queue # <<>>
    /\ ~ok

\* the objects the publisher holds
PublishedIds == { published[k].msg : k \in 1 .. Len(published) }

\* C9: a message handed to the publisher is never touched again by the loop,
\* the loop keeps no pointer to it, and every tick builds into a newly
\* created message object.
C9_PublishedNeverTouched ==
    [][ /\ \A k \in 1 .. Len(published) :
              /\ published'[k] = published[k]
              /\ heap'[published[k].msg] = heap[published[k].msg]
        /\ msg' \notin PublishedIds'
        /\ (pc = "head" /\ pc' = "capture") =>
              /\ ~heap[msg'].live
              /\ heap'[msg'] = Live(NewImage)
      ]_vars

\* two messages are out; after the first was published a capture put another
\* frame into the frame buffer and a flip rewrote the flipped buffer
C9_Witness ==
    /\ JustPublished
    /\ Len(published) = 2
    /\ heap[published[1].msg].obj.data # heap[published[2].msg].obj.data
    /\ ~ShowsFrame(heap[published[1].msg].obj, frame, FALSE)
    /\ ~ShowsFrame(heap[published[1].msg].obj, frame, TRUE)
    /\ ShowsFrame(LastPublished, frame, TRUE)
    /\ LastPublished.data = flipped_frame.data

TickStages == {"capture", "build", "publish", "spin", "sleep"}

\* C10: shutdown acts at tick boundaries only: the loop is left from the
\* loop head alone, with the flag cleared; a tick that has started goes
\* through its stages to the next loop head; after the loop nothing is
\* acquired or published.
C10_ShutdownAtBoundary ==
    [][ /\ (pc \in TickStages) => (pc' \in TickStages \cup {"head"})
        /\ (pc = "head" /\ pc' # pc) => (pc' = IF ok THEN "capture" ELSE "shutdown")
        /\ (pc \in {"shutdown", "exit"}) =>
              /\ frame' = frame
              /\ published' = published
              /\ tick' = tick
              /\ pc' \in {pc, "exit"}
      ]_vars

\* C11: once the shutdown signal has been raised while the loop runs, the
\* loop ends and the process exits with status 0.
C11_ShutdownTerminates ==
    (~ok /\ pc \in TickStages \cup {"head"}) ~> (pc = "exit" /\ exit_code = 0)

\* the process has left main or was terminated
Ended == pc \in {"exit", "abort"}

\* C12: the device handle is acquired at most once and released exactly once
\* on every way out of main (clean shutdown, open failure, a fatal error in
\* a tick), never while the loop runs and never twice.
C12_HandleReleasedOnce ==
    /\ released <= 1
    /\ (Ended => released = 1)
    /\ (~Ended => released = 0)
    /\ (cap_opened => pc # "open")

\* the shape fields of a message: everything but the payload bytes and id
Shape(m) == <<m.width, m.height, m.encoding, m.step, Len(m.data)>>

\* C13: the message published with the flag on has the width, height,
\* encoding, step and data length that the same acquired frame gives with
\* the flag off, also when the frame's rows are padded.
C13_FlipKeepsShape ==
    JustPublished =>
        Shape(LastPublished) = Shape(convert_frame_to_message(acquired, i, NewImage).msg)

\* C13 amended: the flipped message keeps the width, height and encoding of
\* the acquired frame and holds step x height bytes; step and data length
\* are those of the unflipped message when the frame's rows are tightly
\* packed, and the tight row size (x height) when the rows are padded.
C13_FlipKeepsDimensions ==
    JustPublished =>
        LET m == LastPublished
            u == convert_frame_to_message(acquired, i, NewImage).msg
            tight == acquired.cols * ElemSize(acquired.type)
        IN /\ m.width = u.width
           /\ m.height = u.height
           /\ m.encoding = u.encoding
           /\ m.step = (IF is_flipped THEN tight ELSE acquired.step)
           /\ Len(m.data) = m.step * m.height
           /\ (acquired.step = tight => Shape(m) = Shape(u))

\* a frame with padded rows published flipped
C13_Witness ==
    /\ JustPublished
    /\ is_flipped
    /\ acquired.step > acquired.cols * ElemSize(acquired.type)
    /\ ShowsFrame(LastPublished, acquired, TRUE)
    /\ LastPublished.step < acquired.step

\* C14: flipping a buffer twice gives back the original: the same
\* dimensions and the same pixel bytes at the same positions.
C14_FlipTwiceIsIdentity ==
    pc = "flipped twice" =>
        /\ flipped_frame.rows = frame.rows
        /\ flipped_frame.cols = frame.cols
        /\ flipped_frame.type = frame.type
        /\ Len(flipped_frame.data) = flipped_frame.step * flipped_frame.rows
        /\ \A r \in 0 .. frame.rows - 1 : \A c \in 0 .. frame.cols - 1 :
             \A b \in 0 .. ElemSize(frame.type) - 1 :
                At(flipped_frame, r, c, b) = At(frame, r, c, b)

\* a padded buffer of two rows whose mirror image differs from it
C14_Witness ==
    /\ pc = "flipped twice"
    /\ frame.rows = MaxRows
    /\ frame.cols = MaxCols
    /\ frame.step > frame.cols * ElemSize(frame.type)
    /\ At(flip(frame), 1, 0, 0) # At(frame, 1, 0, 0)

\* C15: every tick that ends in a recoverable error (an empty read, an
\* unsupported encoding) and every failure at construction has emitted a
\* diagnostic before the loop moves on or the process ends.
C15_NoSilentError ==
    /\ (pc = "sleep" /\ empty(acquired)) => \E k \in 1 .. Len(errlog) : errlog[k].tick = tick
    /\ (pc = "abort") => \E k \in 1 .. Len(errlog) : errlog[k].tick = tick
    /\ (pc = "exit" /\ exit_code = 1) => errlog # <<>>

\* C16: the flag is written only by the toggle callback, which runs only in
\* spin_some; it does not change between the start of a tick and the tick's
\* publish, so a message shows the flag as the earlier drains left it, and
\* every message published before any toggle was handled is unflipped.
C16_FlagWrittenOnlyInDrain ==
    [][ /\ (is_flipped' # is_flipped) =>
              /\ pc = "spin"
              /\ pc' = "sleep"
              /\ queue # <<>>
              /\ is_flipped' = queue[Len(queue)]
        /\ (handled' # handled) => (pc = "spin" /\ pc' = "sleep")
        /\ (pc = "publish" /\ pc' = "spin") =>
              /\ ShowsFrame(heap[msg].obj, acquired, is_flipped)
              /\ (handled = <<>> => ShowsFrame(heap[msg].obj, acquired, FALSE))
      ]_vars

\* a toggle is waiting, none was handled yet, the second tick's frame is
\* published unflipped
C16_Witness ==
    /\ JustPublished
    /\ tick = 2
    /\ handled = <<>>
    /\ queue = <<TRUE>>
    /\ ShowsFrame(LastPublished, acquired, FALSE)
    /\ ~ShowsFrame(LastPublished, acquired, TRUE)

\* C18: at the loop head the counter is 1 plus the number of published
\* messages; the counter never decreases, moves by one exactly when a message
\* is published, and no tick publishes two messages.
C18_CounterTracksPublished ==
    [][ /\ (pc = "head" => i = Len(published) + 1)
        /\ (pc' = "head" => i' = Len(published') + 1)
        /\ i' \in {i, i + 1}
        /\ Len(published') \in {Len(published), Len(published) + 1}
        /\ (i' = i + 1) <=> (Len(published') = Len(published) + 1)
        /\ (i' = i + 1) => (tick' = tick /\ published'[Len(published')].tick = tick)
        /\ \A k \in 2 .. Len(published') : published'[k - 1].tick < published'[k].tick
      ]_vars

C18_Witness ==
    /\ pc = "head"
    /\ tick = 4
    /\ i = 3
    /\ published[1].tick = 2
    /\ published[2].tick = 4

\* C19: a published message shows the frame the device delivered in the same
\* tick (mirrored when the flag is on); a tick whose read was empty publishes
\* nothing, and a flipped copy left from an earlier tick is never sent.
C19_BuiltFromThisTick ==
    /\ JustPublished =>
          /\ ~empty(acquired)
          /\ ShowsFrame(LastPublished, acquired, is_flipped)
    /\ (pc \in {"build", "publish", "spin", "sleep"} /\ empty(acquired)) =>
          \A k \in 1 .. Len(published) : published[k].tick # tick

\* the first unflipped tick after the flag went off, with the flipped copy
\* of an earlier, different frame still in flipped_frame
C19_Witness ==
    /\ JustPublished
    /\ Len(published) = 2
    /\ ~is_flipped
    /\ flipped_frame # EmptyMat
    /\ flipped_frame.type # acquired.type
    /\ ShowsFrame(heap[published[1].msg].obj, flipped_frame, FALSE)

====
